---- MODULE Spec2Model ----
(***************************************************************************)
(* Model of index.py: one HTTP GET to the Open Library search endpoint,    *)
(* JSON decoding of the body, extraction of title / first author / first   *)
(* 10-character ISBN of the first document, and one print of the three.    *)
(*                                                                         *)
(* The script is straight-line code with one loop.  Each statement is one  *)
(* action; pc names the statement about to run.  An uncaught exception     *)
(* ends the process (pc = "failed", error records line and exception).     *)
(***************************************************************************)
EXTENDS Naturals, Sequences, FiniteSets, TLC

(***************************************************************************)
(* Bounds of the input space.                                              *)
(***************************************************************************)
MaxDocs == 2        \* longest `docs` array
MaxAuthors == 2     \* longest `author_name` array
MaxIsbn == 3        \* longest `isbn` array
MaxIsbnRerun == 1   \* longest `isbn` array of the first of two runs

(***************************************************************************)
(* Python values.  Every value carries its type, as in Python.             *)
(***************************************************************************)
None == [t |-> "NoneType"]
PyStr(s) == [t |-> "str", v |-> s]
PyList(q) == [t |-> "list", v |-> q]
PyDict(f) == [t |-> "dict", v |-> f]
\* A name that no statement has bound yet.
Unbound == [t |-> "unbound"]

\* The result of evaluating an expression: a value, or a raised exception.
Ok(v) == [ok |-> TRUE, v |-> v]
Raise(e) == [ok |-> FALSE, exc |-> e]

(***************************************************************************)
(* JSON documents, as they travel in a response body.                      *)
(***************************************************************************)
JNull == [j |-> "null"]
JString(s) == [j |-> "string", s |-> s]
JArray(q) == [j |-> "array", items |-> q]
JObject(f) == [j |-> "object", members |-> f]
\* A body that is not JSON (an HTML error page, an empty body).
NotJson == [j |-> "invalid"]
\* Marks a key left out of an object when the inputs are enumerated.
Absent == [j |-> "absent"]

url == "https://openlibrary.org/search.json?q=clans+of+the+alphane+moon"

\* All sequences over S of length 0..n.
SeqUpTo(S, n) == UNION {[1..k -> S] : k \in 0..n}

\* line 7: json.loads behind response.json(): object -> dict, array -> list,
\* string -> str, null -> None.
RECURSIVE loads(_)
loads(jv) ==
    CASE jv.j = "object" -> PyDict([k \in DOMAIN jv.members |-> loads(jv.members[k])])
      [] jv.j = "array"  -> PyList([k \in 1..Len(jv.items) |-> loads(jv.items[k])])
      [] jv.j = "string" -> PyStr(jv.s)
      [] jv.j = "null"   -> None

\* Mutant of json: the status is checked first, as raise_for_status() would.
json_RaiseForStatus(response) ==
    IF response.status_code \notin 200..299 THEN Raise("HTTPError")
    ELSE IF response.body = NotJson THEN Raise("JSONDecodeError")
    ELSE Ok(loads(response.body))

\* response.json(): raises on a body that is not JSON.
json(response) ==
    IF response.body = NotJson THEN Raise("JSONDecodeError")
    ELSE Ok(loads(response.body))

\* obj.get(key): dict.get returns None for a missing key; the other JSON-derived
\* types have no attribute `get`.
get(obj, key) ==
    IF obj.t = "dict"
    THEN Ok(IF key \in DOMAIN obj.v THEN obj.v[key] ELSE None)
    ELSE Raise("AttributeError")

\* Mutant of subscript0: a missing first element yields None instead of raising.
subscript0_Default(obj) ==
    IF obj.t = "list" /\ Len(obj.v) > 0 THEN Ok(obj.v[1]) ELSE Ok(None)

\* Mutant of subscript0: obj[-1], the last element instead of the first.
subscript0_Last(obj) ==
    CASE obj.t = "list" -> IF Len(obj.v) = 0 THEN Raise("IndexError") ELSE Ok(obj.v[Len(obj.v)])
      [] obj.t = "str"  -> IF Len(obj.v) = 0 THEN Raise("IndexError")
                           ELSE Ok(PyStr(SubSeq(obj.v, Len(obj.v), Len(obj.v))))
      [] obj.t = "dict" -> Raise("KeyError")
      [] obj.t = "NoneType" -> Raise("TypeError")

\* obj[0]
subscript0(obj) ==
    CASE obj.t = "list" -> IF Len(obj.v) = 0 THEN Raise("IndexError") ELSE Ok(obj.v[1])
      [] obj.t = "str"  -> IF Len(obj.v) = 0 THEN Raise("IndexError")
                           ELSE Ok(PyStr(SubSeq(obj.v, 1, 1)))
      [] obj.t = "dict" -> Raise("KeyError")
      [] obj.t = "NoneType" -> Raise("TypeError")

\* obj.get(key)[0], as one expression: the first exception raised wins.
getSubscript0(obj, key) ==
    LET g == get(obj, key) IN IF g.ok THEN subscript0(g.v) ELSE g

\* The items `for i in obj` walks over: a list's elements, a str's characters;
\* None is not iterable.
iter(obj) ==
    CASE obj.t = "list" -> Ok(obj.v)
      [] obj.t = "str"  -> Ok([k \in 1..Len(obj.v) |-> PyStr(SubSeq(obj.v, k, k))])
      [] obj.t = "NoneType" -> Raise("TypeError")

\* len(obj)
len(obj) ==
    CASE obj.t \in {"list", "str"} -> Ok(Len(obj.v))
      [] obj.t = "dict" -> Ok(Cardinality(DOMAIN obj.v))
      [] obj.t = "NoneType" -> Raise("TypeError")

\* str(obj), as print applies it to each argument.
str(obj) ==
    CASE obj.t = "str" -> obj.v
      [] obj.t = "NoneType" -> "None"

\* Mutant of print3: the default separator, a space.
print3_SpaceSep(a, b, c) == str(a) \o " " \o str(b) \o " " \o str(c) \o "\n"

\* print(a, b, c, sep='\n'): the converted arguments joined by sep, then the
\* default end, a line break.
print3(a, b, c) == str(a) \o "\n" \o str(b) \o "\n" \o str(c) \o "\n"

(***************************************************************************)
(* The responses the network may give.                                     *)
(***************************************************************************)
Titles == {"Clans of the Alphane Moon", "Clans of the\nAlphane Moon"}
Authors == {"Philip K. Dick", "Someone Else"}
Isbns == {"0575094194", "0441116802", "9780575094195"}
StatusCodes == {200, 404}

TitleFields == {Absent} \cup {JString(s) : s \in Titles}
AuthorFields == {Absent} \cup {JArray(q) : q \in SeqUpTo({JString(s) : s \in Authors}, MaxAuthors)}
IsbnItems == {JString(s) : s \in Isbns} \cup {JNull}
IsbnFields(n) == {Absent} \cup {JArray(q) : q \in SeqUpTo(IsbnItems, n)}

\* An object holding the fields that are not Absent.
Document(title, author_name, isbn) ==
    LET field == [k \in {"title", "author_name", "isbn"} |->
                    CASE k = "title" -> title
                      [] k = "author_name" -> author_name
                      [] k = "isbn" -> isbn]
    IN JObject([k \in {x \in DOMAIN field : field[x] # Absent} |-> field[k]])

Documents(n) ==
    {Document(t, a, i) : t \in TitleFields, a \in AuthorFields, i \in IsbnFields(n)}

\* A later search result: never the first element of `docs`.
OtherDocument ==
    Document(JString("Ubik"), JArray(<<JString("Someone Else")>>), JArray(<<JString("0441116802")>>))

\* `docs` arrays: a first document followed by up to MaxDocs - 1 others.
DocsTails == SeqUpTo({OtherDocument}, MaxDocs - 1)
SearchBody(docs) ==
    JObject([k \in {x \in {"docs"} : docs # Absent} |-> docs])
Bodies(n) ==
    {NotJson, SearchBody(Absent), SearchBody(JArray(<<>>))}
      \cup {SearchBody(JArray(<<d>> \o tl)) : d \in Documents(n), tl \in DocsTails}

\* What requests.get meets: a transport failure, or a response.
TransportFailure == [ok |-> FALSE]
Response(status, body) == [ok |-> TRUE, status_code |-> status, body |-> body]
Responses(n) ==
    {TransportFailure} \cup {Response(s, b) : s \in StatusCodes, b \in Bodies(n)}

(***************************************************************************)
(* State.                                                                  *)
(***************************************************************************)
VARIABLES
    net,            \* what the network answers to this run's request
    sent,           \* the URLs this run has requested, in order
    pc,             \* the statement about to run, or "done" / "failed"
    error,          \* the uncaught exception that ended the run
    response,       \* line 5
    data,           \* line 7
    first_result,   \* line 8
    book_title,     \* line 10
    author_name,    \* line 12
    isbn_string,    \* line 14, 18
    isbn_results,   \* line 15
    pending,        \* the for loop's iterator: the items not yet visited
    i,              \* the for loop's variable
    stdout,         \* what the run has written to standard output
    prev            \* the previous run of the script, when there was one

vars == <<net, sent, pc, error, response, data, first_result, book_title,
          author_name, isbn_string, isbn_results, pending, i, stdout, prev>>

NoError == [line |-> 0, exc |-> "none"]
NoRun == [ran |-> FALSE]

\* The state of a process that has just been started: no name is bound.
Fresh ==
    /\ sent = <<>>
    /\ pc = "get"
    /\ error = NoError
    /\ response = Unbound
    /\ data = Unbound
    /\ first_result = Unbound
    /\ book_title = Unbound
    /\ author_name = Unbound
    /\ isbn_string = Unbound
    /\ isbn_results = Unbound
    /\ pending = <<>>
    /\ i = Unbound
    /\ stdout = ""

Init ==
    /\ net \in Responses(MaxIsbn)
    /\ prev = NoRun
    /\ Fresh

\* An uncaught exception at `line`: the interpreter ends the process.
Fail(line, exc) ==
    /\ pc' = "failed"
    /\ error' = [line |-> line, exc |-> exc]

\* Mutant of Get: a failed request is tried once more.
Get_Retry ==
    /\ pc = "get"
    /\ sent' = Append(sent, url)
    /\ IF net.ok
       THEN /\ response' = net
            /\ pc' = "json"
            /\ UNCHANGED error
       ELSE /\ IF Len(sent) = 0
               THEN UNCHANGED <<pc, error>>
               ELSE Fail(5, "ConnectionError")
            /\ UNCHANGED response
    /\ UNCHANGED <<net, data, first_result, book_title, author_name, isbn_string,
                   isbn_results, pending, i, stdout, prev>>

\* line 5: response = requests.get(url)
Get ==
    /\ pc = "get"
    /\ sent' = Append(sent, url)
    /\ IF net.ok
       THEN /\ response' = net
            /\ pc' = "json"
            /\ UNCHANGED error
       ELSE /\ Fail(5, "ConnectionError")
            /\ UNCHANGED response
    /\ UNCHANGED <<net, data, first_result, book_title, author_name, isbn_string,
                   isbn_results, pending, i, stdout, prev>>

\* line 7: data = response.json()
Json ==
    /\ pc = "json"
    /\ LET r == json(response) IN
         IF r.ok
         THEN /\ data' = r.v
              /\ pc' = "first_result"
              /\ UNCHANGED error
         ELSE /\ Fail(7, r.exc)
              /\ UNCHANGED data
    /\ UNCHANGED <<net, sent, response, first_result, book_title, author_name,
                   isbn_string, isbn_results, pending, i, stdout, prev>>

\* line 8: first_result = data.get("docs")[0]
FirstResult ==
    /\ pc = "first_result"
    /\ LET r == getSubscript0(data, "docs") IN
         IF r.ok
         THEN /\ first_result' = r.v
              /\ pc' = "title"
              /\ UNCHANGED error
         ELSE /\ Fail(8, r.exc)
              /\ UNCHANGED first_result
    /\ UNCHANGED <<net, sent, response, data, book_title, author_name,
                   isbn_string, isbn_results, pending, i, stdout, prev>>

\* Mutant of Title: the title is printed as soon as it is extracted.
Title_PrintsEarly ==
    /\ pc = "title"
    /\ LET r == get(first_result, "title") IN
         IF r.ok
         THEN /\ book_title' = r.v
              /\ stdout' = stdout \o str(r.v) \o "\n"
              /\ pc' = "author"
              /\ UNCHANGED error
         ELSE /\ Fail(10, r.exc)
              /\ UNCHANGED <<book_title, stdout>>
    /\ UNCHANGED <<net, sent, response, data, first_result, author_name,
                   isbn_string, isbn_results, pending, i, prev>>

\* line 10: book_title = first_result.get("title")
Title ==
    /\ pc = "title"
    /\ LET r == get(first_result, "title") IN
         IF r.ok
         THEN /\ book_title' = r.v
              /\ pc' = "author"
              /\ UNCHANGED error
         ELSE /\ Fail(10, r.exc)
              /\ UNCHANGED book_title
    /\ UNCHANGED <<net, sent, response, data, first_result, author_name,
                   isbn_string, isbn_results, pending, i, stdout, prev>>

\* Mutant of Author: a missing author is tolerated, like a missing title.
Author_Tolerant ==
    /\ pc = "author"
    /\ LET r == getSubscript0(first_result, "author_name") IN
         /\ author_name' = IF r.ok THEN r.v ELSE None
         /\ pc' = "isbn_string"
    /\ UNCHANGED <<net, sent, error, response, data, first_result, book_title,
                   isbn_string, isbn_results, pending, i, stdout, prev>>

\* line 12: author_name = first_result.get("author_name")[0]
Author ==
    /\ pc = "author"
    /\ LET r == getSubscript0(first_result, "author_name") IN
         IF r.ok
         THEN /\ author_name' = r.v
              /\ pc' = "isbn_string"
              /\ UNCHANGED error
         ELSE /\ Fail(12, r.exc)
              /\ UNCHANGED author_name
    /\ UNCHANGED <<net, sent, response, data, first_result, book_title,
                   isbn_string, isbn_results, pending, i, stdout, prev>>

\* line 14: isbn_string = ""
IsbnString ==
    /\ pc = "isbn_string"
    /\ isbn_string' = PyStr("")
    /\ pc' = "isbn_results"
    /\ UNCHANGED <<net, sent, error, response, data, first_result, book_title,
                   author_name, isbn_results, pending, i, stdout, prev>>

\* line 15: isbn_results = first_result.get("isbn")
IsbnResults ==
    /\ pc = "isbn_results"
    /\ LET r == get(first_result, "isbn") IN
         IF r.ok
         THEN /\ isbn_results' = r.v
              /\ pc' = "for"
              /\ UNCHANGED error
         ELSE /\ Fail(15, r.exc)
              /\ UNCHANGED isbn_results
    /\ UNCHANGED <<net, sent, response, data, first_result, book_title,
                   author_name, isbn_string, pending, i, stdout, prev>>

\* line 16, on entry: the for statement asks isbn_results for an iterator.
For ==
    /\ pc = "for"
    /\ LET r == iter(isbn_results) IN
         IF r.ok
         THEN /\ pending' = r.v
              /\ pc' = "next"
              /\ UNCHANGED error
         ELSE /\ Fail(16, r.exc)
              /\ UNCHANGED pending
    /\ UNCHANGED <<net, sent, response, data, first_result, book_title,
                   author_name, isbn_string, isbn_results, i, stdout, prev>>

\* line 16, each round: bind i to the next item, or leave the loop when the
\* iterator is exhausted.
ForNext ==
    /\ pc = "next"
    /\ IF pending = <<>>
       THEN /\ pc' = "print"
            /\ UNCHANGED <<i, pending>>
       ELSE /\ i' = Head(pending)
            /\ pending' = Tail(pending)
            /\ pc' = "if"
    /\ UNCHANGED <<net, sent, error, response, data, first_result, book_title,
                   author_name, isbn_string, isbn_results, stdout, prev>>

\* Mutant of IfLen: the break is missing, so the scan goes on after a match.
IfLen_NoBreak ==
    /\ pc = "if"
    /\ LET r == len(i) IN
         IF ~r.ok
         THEN /\ Fail(17, r.exc)
              /\ UNCHANGED isbn_string
         ELSE /\ isbn_string' = IF r.v = 10 THEN i ELSE isbn_string
              /\ pc' = "next"
              /\ UNCHANGED error
    /\ UNCHANGED <<net, sent, response, data, first_result, book_title,
                   author_name, isbn_results, pending, i, stdout, prev>>

\* lines 17-19: if len(i) == 10: isbn_string = i; break
IfLen ==
    /\ pc = "if"
    /\ LET r == len(i) IN
         IF ~r.ok
         THEN /\ Fail(17, r.exc)
              /\ UNCHANGED isbn_string
         ELSE IF r.v = 10
         THEN /\ isbn_string' = i
              /\ pc' = "print"
              /\ UNCHANGED error
         ELSE /\ pc' = "next"
              /\ UNCHANGED <<isbn_string, error>>
    /\ UNCHANGED <<net, sent, response, data, first_result, book_title,
                   author_name, isbn_results, pending, i, stdout, prev>>

\* line 21: print(book_title, author_name, isbn_string, sep='\n')
PrintTriple ==
    /\ pc = "print"
    /\ stdout' = stdout \o print3(book_title, author_name, isbn_string)
    /\ pc' = "done"
    /\ UNCHANGED <<net, sent, error, response, data, first_result, book_title,
                   author_name, isbn_string, isbn_results, pending, i, prev>>

Terminated == pc \in {"done", "failed"}

\* What a finished run leaves behind for an observer.
Outcome ==
    [pc |-> pc, error |-> error, stdout |-> stdout, book_title |-> book_title,
     author_name |-> author_name, isbn_string |-> isbn_string]

(***************************************************************************)
(* Running the script a second time.  The second process starts fresh and  *)
(* meets a response that is the first one, or differs from it in the       *)
(* status code, in the documents after the first, or in the author names   *)
(* after the first.                                                        *)
(***************************************************************************)
HasFirstDocument(body) ==
    /\ body.j = "object"
    /\ "docs" \in DOMAIN body.members
    /\ body.members["docs"].j = "array"
    /\ Len(body.members["docs"].items) > 0

FirstDocument(body) == body.members["docs"].items[1]

HasFirstAuthor(doc) ==
    /\ "author_name" \in DOMAIN doc.members
    /\ doc.members["author_name"].j = "array"
    /\ Len(doc.members["author_name"].items) > 0

OtherTails(body) ==
    IF HasFirstDocument(body)
    THEN {SearchBody(JArray(<<FirstDocument(body)>> \o tl)) : tl \in DocsTails}
    ELSE {}

OtherAuthors(body) ==
    IF HasFirstDocument(body) /\ HasFirstAuthor(FirstDocument(body))
    THEN LET d == FirstDocument(body)
             a == d.members["author_name"].items[1]
             rest == Tail(body.members["docs"].items)
         IN {SearchBody(JArray(<<JObject([d.members EXCEPT !["author_name"] =
                                            JArray(<<a>> \o tl)])>> \o rest)) :
               tl \in SeqUpTo({JString(s) : s \in Authors}, MaxAuthors - 1)}
    ELSE {}

SecondResponses(r) ==
    IF r.ok
    THEN {Response(s, b) : s \in StatusCodes,
                           b \in {r.body} \cup OtherTails(r.body) \cup OtherAuthors(r.body)}
    ELSE {r}

\* Mutant of Rerun: the second run appends to the output of the first.
Rerun_KeepsOutput ==
    /\ Terminated
    /\ prev = NoRun
    /\ prev' = [ran |-> TRUE, net |-> net, outcome |-> Outcome]
    /\ net' \in SecondResponses(net)
    /\ sent' = <<>>
    /\ pc' = "get"
    /\ error' = NoError
    /\ response' = Unbound
    /\ data' = Unbound
    /\ first_result' = Unbound
    /\ book_title' = Unbound
    /\ author_name' = Unbound
    /\ isbn_string' = Unbound
    /\ isbn_results' = Unbound
    /\ pending' = <<>>
    /\ i' = Unbound
    /\ UNCHANGED stdout

\* The script is started again: lines 1-21 run in a new process.
Rerun ==
    /\ Terminated
    /\ prev = NoRun
    /\ prev' = [ran |-> TRUE, net |-> net, outcome |-> Outcome]
    /\ net' \in SecondResponses(net)
    /\ sent' = <<>>
    /\ pc' = "get"
    /\ error' = NoError
    /\ response' = Unbound
    /\ data' = Unbound
    /\ first_result' = Unbound
    /\ book_title' = Unbound
    /\ author_name' = Unbound
    /\ isbn_string' = Unbound
    /\ isbn_results' = Unbound
    /\ pending' = <<>>
    /\ i' = Unbound
    /\ stdout' = ""

Next ==
    \/ Get
    \/ Json
    \/ FirstResult
    \/ Title
    \/ Author
    \/ IsbnString
    \/ IsbnResults
    \/ For
    \/ ForNext
    \/ IfLen
    \/ PrintTriple

Spec == Init /\ [][Next]_vars

InitRerun ==
    /\ net \in Responses(MaxIsbnRerun)
    /\ prev = NoRun
    /\ Fresh

NextRerun ==
    \/ Next
    \/ Rerun

SpecRerun == InitRerun /\ [][NextRerun]_vars

(***************************************************************************)
(* What the response says, read off the JSON document itself.  These are   *)
(* the reference values the properties compare the program's state with.   *)
(***************************************************************************)
Min(S) == CHOOSE x \in S : \A y \in S : x <= y

\* The response carries a JSON object.
BodyIsObject == net.ok /\ net.body.j = "object"

\* The response's `docs` holds a first document.
DocsHasFirst == BodyIsObject /\ HasFirstDocument(net.body)

\* Member `key` of the first document of `body`, or Absent.
FieldOf(body, key) ==
    LET m == FirstDocument(body).members
    IN IF key \in DOMAIN m THEN m[key] ELSE Absent

Doc1Field(key) == FieldOf(net.body, key)

\* `author_name` of the first document is an array with a first element.
AuthorPresent == DocsHasFirst /\ HasFirstAuthor(FirstDocument(net.body))

\* `isbn` of the first document is an array of strings only.
IsbnAllStrings ==
    /\ Doc1Field("isbn") # Absent
    /\ \A k \in 1..Len(Doc1Field("isbn").items) : Doc1Field("isbn").items[k].j = "string"

\* The indices of the entries of length exactly 10 in an `isbn` array.
Length10(items) == {k \in 1..Len(items) : items[k].j = "string" /\ Len(items[k].s) = 10}

\* The entry at the lowest index whose length is exactly 10, or "".
FirstLength10(items) ==
    IF Length10(items) = {} THEN "" ELSE items[Min(Length10(items))].s

TitleText == IF Doc1Field("title") = Absent THEN "None" ELSE Doc1Field("title").s
AuthorText == Doc1Field("author_name").items[1].s
IsbnText == FirstLength10(Doc1Field("isbn").items)

\* The three values, each followed by a line break.
ExpectedStdout == TitleText \o "\n" \o AuthorText \o "\n" \o IsbnText \o "\n"

\* The positions of the line breaks of a text, and the lines they end.
LineBreaks(s) == {k \in 1..Len(s) : SubSeq(s, k, k) = "\n"}
RECURSIVE SplitLines(_)
SplitLines(s) ==
    IF LineBreaks(s) = {}
    THEN IF Len(s) = 0 THEN <<>> ELSE <<s>>
    ELSE LET k == Min(LineBreaks(s))
         IN <<SubSeq(s, 1, k - 1)>> \o SplitLines(SubSeq(s, k + 1, Len(s)))

Is2xx(status) == status \in 200..299

\* The statements of the ISBN scan and what follows it.
ScanOrLater == {"isbn_string", "isbn_results", "for", "next", "if", "print", "done"}

(***************************************************************************)
(* Properties.                                                             *)
(***************************************************************************)

\* C1: once the scan over the first document's `isbn` has ended, isbn_string is
\* the entry at the lowest index whose length is exactly 10 (later entries of
\* length 10 are ignored), and it is "" exactly when no entry has length 10;
\* over a sequence of strings the scan always ends without an error.
C1_FirstLength10 ==
    /\ pc \in {"print", "done"} =>
         /\ Doc1Field("isbn") # Absent
         /\ isbn_string = PyStr(FirstLength10(Doc1Field("isbn").items))
         /\ (isbn_string = PyStr("")) <=> (Length10(Doc1Field("isbn").items) = {})
    /\ (pc = "failed" /\ DocsHasFirst /\ IsbnAllStrings) => error.line \notin {16, 17}

\* A finished scan over <<13 characters, 10 characters, another 10 characters>>.
C1_Witness ==
    /\ pc = "done"
    /\ Doc1Field("isbn") =
         JArray(<<JString("9780575094195"), JString("0575094194"), JString("0441116802")>>)
    /\ isbn_string = PyStr("0575094194")

\* The first document lacks `title`, or lacks `isbn`, or has an empty `isbn`.
TitleOrIsbnMissing ==
    \/ Doc1Field("title") = Absent
    \/ Doc1Field("isbn") = Absent
    \/ Doc1Field("isbn") = JArray(<<>>)

\* C2, as claimed: with a non-empty `author_name`, a run whose first document
\* lacks `title`, or lacks `isbn`, or has an empty `isbn` (and whose `isbn`,
\* when present, holds strings only) does not fail: it ends having printed, the
\* title being None when missing and the ISBN "" when `isbn` is missing or empty.
C2_MissingTolerated ==
    (/\ Terminated
     /\ AuthorPresent
     /\ TitleOrIsbnMissing
     /\ Doc1Field("isbn") # Absent => IsbnAllStrings)
    => /\ pc = "done"
       /\ stdout # ""
       /\ Doc1Field("title") = Absent => book_title = None
       /\ Doc1Field("isbn") \in {Absent, JArray(<<>>)} => isbn_string = PyStr("")

\* C3: when the decoded body has no `docs` key, or `docs` is empty, the run
\* never gets past the first-result lookup: it ends in an uncaught exception at
\* line 8, with no title, author or ISBN extracted and nothing printed.
C3_MissingDocsFatal ==
    (BodyIsObject /\ ~HasFirstDocument(net.body)) =>
        /\ pc \in {"get", "json", "first_result", "failed"}
        /\ pc = "failed" => error.line = 8
        /\ first_result = Unbound
        /\ book_title = Unbound
        /\ author_name = Unbound
        /\ isbn_string = Unbound
        /\ stdout = ""

\* A run over {"docs": []} that has ended at line 8.
C3_Witness ==
    /\ net.ok
    /\ net.body = SearchBody(JArray(<<>>))
    /\ pc = "failed"
    /\ error = [line |-> 8, exc |-> "IndexError"]

\* C4: when `docs` has a first document whose `author_name` is missing or
\* empty, the run ends in an uncaught exception at line 12 whatever `title`
\* and `isbn` are, and no statement of the ISBN scan is ever reached.
C4_MissingAuthorFatal ==
    (DocsHasFirst /\ ~AuthorPresent) =>
        /\ pc \notin ScanOrLater
        /\ pc = "failed" => error.line = 12
        /\ author_name = Unbound
        /\ isbn_string = Unbound
        /\ isbn_results = Unbound
        /\ stdout = ""

\* A run that has ended at line 12 on an empty `author_name`, the first
\* document having a title and an ISBN of length 10.
C4_Witness ==
    /\ DocsHasFirst
    /\ Doc1Field("author_name") = JArray(<<>>)
    /\ Doc1Field("title") # Absent
    /\ Doc1Field("isbn") = JArray(<<JString("0575094194")>>)
    /\ pc = "failed"
    /\ error = [line |-> 12, exc |-> "IndexError"]

\* C5, as claimed: a run that has printed has written exactly three lines: the
\* title, the first author name, the selected ISBN string, in this order.
C5_ExactlyThreeLines ==
    pc = "done" => SplitLines(stdout) = <<TitleText, AuthorText, IsbnText>>

\* C5, amended: a run that has printed has written exactly the title, the
\* first author name and the selected ISBN string, in this order, each followed
\* by one line break, and nothing else; these are exactly three lines whenever
\* none of the three values holds a line break.
C5_ThreeValuesInOrder ==
    pc = "done" =>
        /\ stdout = ExpectedStdout
        /\ LineBreaks(TitleText \o AuthorText \o IsbnText) = {} =>
             SplitLines(stdout) = <<TitleText, AuthorText, IsbnText>>

\* A run that has printed title, author and a 10-character ISBN on three lines.
C5_Witness ==
    /\ pc = "done"
    /\ stdout = "Clans of the Alphane Moon\nPhilip K. Dick\n0441116802\n"
    /\ SplitLines(stdout) = <<"Clans of the Alphane Moon", "Philip K. Dick", "0441116802">>

\* C9: a run sends exactly one GET, to the fixed URL, and sends it before any
\* other step; whatever fails afterwards (the transport, the decoding, a
\* lookup), no second request follows.
C9_OneRequest ==
    /\ pc = "get" => sent = <<>>
    /\ pc # "get" => sent = <<url>>

\* A run that failed on a body that is not JSON, after its only request.
C9_Witness ==
    /\ pc = "failed"
    /\ error.line = 7
    /\ sent = <<url>>

\* C10: standard output holds nothing, or the whole output of the three
\* values; it holds the whole output only in a run that has ended normally,
\* and a run that has ended in an uncaught exception has written nothing.
C10_AllOrNothing ==
    /\ stdout = "" \/ (pc = "done" /\ stdout = ExpectedStdout)
    /\ pc = "failed" => stdout = ""
    /\ pc = "done" => stdout # ""

\* A run that failed inside the ISBN scan, title and author already extracted,
\* and that has written nothing.
C10_Witness ==
    /\ pc = "failed"
    /\ error.line \in {16, 17}
    /\ book_title # Unbound
    /\ author_name # Unbound
    /\ stdout = ""

(***************************************************************************)
(* Properties of two runs of the script, one after the other.              *)
(***************************************************************************)

\* Both runs got a response.
BothAnswered == prev.ran /\ prev.net.ok /\ net.ok

\* The two bodies hold a first document, and the two first documents agree on
\* `title`, on `isbn` and on the first element of `author_name`.
SameFirstFields ==
    /\ BothAnswered
    /\ prev.net.body.j = "object" /\ HasFirstDocument(prev.net.body)
    /\ DocsHasFirst
    /\ FieldOf(prev.net.body, "title") = Doc1Field("title")
    /\ FieldOf(prev.net.body, "isbn") = Doc1Field("isbn")
    /\ HasFirstAuthor(FirstDocument(prev.net.body))
    /\ AuthorPresent
    /\ FieldOf(prev.net.body, "author_name").items[1] = Doc1Field("author_name").items[1]

\* C6: once extracted, the author is element 0 of the first document's
\* `author_name`; and two runs whose first documents agree on `title`, `isbn`
\* and that element end alike, whatever the later author names and the later
\* documents are.
C6_FirstAuthorOnly ==
    /\ (pc \in ScanOrLater \/ (pc = "failed" /\ error.line > 12)) =>
         /\ AuthorPresent
         /\ author_name = PyStr(AuthorText)
    /\ (Terminated /\ SameFirstFields) => Outcome = prev.outcome

\* A second run over two documents and two author names that ends like a first
\* run over the same first document with one author name.
C6_Witness ==
    /\ pc = "done"
    /\ SameFirstFields
    /\ Len(net.body.members["docs"].items) = 2
    /\ Doc1Field("author_name") = JArray(<<JString("Philip K. Dick"), JString("Someone Else")>>)
    /\ FieldOf(prev.net.body, "author_name") = JArray(<<JString("Philip K. Dick")>>)
    /\ author_name = PyStr("Philip K. Dick")

\* C7: the status code is never consulted: a run whose response has a non-2xx
\* status still decodes the body, and of two runs over one and the same body,
\* one with a 2xx status and one without, both end alike (same output, or same
\* exception at the same line).
C7_StatusIgnored ==
    /\ (pc = "failed" /\ net.ok /\ ~Is2xx(net.status_code)) => error.line > 5
    /\ (/\ Terminated
        /\ BothAnswered
        /\ prev.net.body = net.body
        /\ Is2xx(prev.net.status_code) # Is2xx(net.status_code))
       => Outcome = prev.outcome

\* A run with status 404 that has printed, after a run with status 200 over
\* the same body.
C7_Witness ==
    /\ pc = "done"
    /\ BothAnswered
    /\ prev.net.body = net.body
    /\ prev.net.status_code = 200
    /\ net.status_code = 404

====
